---- MODULE Spec2Model ----
(***************************************************************************)
(* Typeracer CLI (src/typer.py): the round state machine of main_curses    *)
(* and the TyperacerGame methods it calls.                                 *)
(*                                                                         *)
(* Characters are Unicode code points (the integers getch() returns and    *)
(* ord() of the quote's characters); strings are sequences of code points. *)
(* The wall clock is counted in ticks of 0.1 s, and a WPM value is kept in *)
(* tenths of a word per minute (round(wpm, 1) * 10).                       *)
(***************************************************************************)
EXTENDS Integers, Sequences, FiniteSets, TLC

\* ---------------------------------------------------------------- bounds
MaxClock == 3          \* the clock is observed on 1..MaxClock
MaxOver == 2           \* typed characters kept beyond the end of the quote
MaxErrors == 2         \* largest error count followed
MaxTierWpm == 1000     \* calculate_tier is applied to 0.0 .. 100.0 wpm
MaxTierErrors == 5     \* and to the error counts 0 .. MaxTierErrors
MaxRows == 6           \* rows of typing_stats.csv followed over the runs
MaxNormLen == 3        \* longest string handed to the normalizers
MaxFiles == 4          \* book files found by the quote extractor
MaxProcesses == 2      \* largest --processes
MaxNumQuotes == 3      \* largest --num-quotes
MaxQuotesPerFile == 1  \* most quotes process_single_file returns for a file

\* ------------------------------------------------------- program values
None == -1             \* Python's None for start_time / end_time / ch

KEY_BACKSPACE == 263   \* curses.KEY_BACKSPACE
CTRL_C == 3
CTRL_X == 24

PRISTINE_WPM == 900          \* RewardConfig, in tenths of a wpm
EXCEPTIONAL_WPM == 800
ADEQUATE_WPM == 700
PRISTINE_MAX_ERRORS == 0

\* ------------------------------------------------------------ alphabet
\* code points used by the model
\*   34 '"'   39 "'"   101 'e'   10 Enter   127 DEL
\*   233 e-acute (NFD: 101, 769)   769 combining acute accent (category Mn)
\*   8220/8221 curly double quotes   8216/8217 curly single quotes
\*   847 combining grapheme joiner (Mn, combining class 0)
\*   119141 musical symbol combining stem (Mc, combining class 216)
\*   119149 musical symbol combining augmentation dot (Mc, class 226)

\* the *.txt files of quotes/ (first line of each, after strip())
QuoteFiles == { <<>>, <<233>>, <<8221, 101>> }

\* key codes the input source delivers
Keys == { 127, KEY_BACKSPACE, CTRL_C, CTRL_X, 10, 101, 34 }

\* ------------------------------------------------------ TextNormalizer
\* str.translate(quote_normalization_table) on one code point
TranslateChar(c) ==
    IF c = 8220 \/ c = 8221 THEN 34
    ELSE IF c = 8216 \/ c = 8217 THEN 39
    ELSE c

\* normalize_text: curly quotes to straight quotes
normalize_text(text) == [i \in 1..Len(text) |-> TranslateChar(text[i])]

\* unicodedata.normalize('NFD', c) for one code point of the alphabet
NFDChar(c) == IF c = 233 THEN <<101, 769>> ELSE <<c>>

\* unicodedata.category(c) == 'Mn'
IsMn(c) == c = 769 \/ c = 847

\* unicodedata.combining(c): the canonical combining class
CombiningClass(c) ==
    IF c = 769 THEN 230
    ELSE IF c = 119141 THEN 216
    ELSE IF c = 119149 THEN 226
    ELSE 0

\* the canonical decomposition of every character, in order
RECURSIVE Decompose(_)
Decompose(text) ==
    IF text = <<>> THEN <<>> ELSE NFDChar(Head(text)) \o Decompose(Tail(text))

\* c put into an ordered sequence: it moves left over the characters of a
\* higher combining class, and stops at a character of class 0
RECURSIVE InsertMark(_, _)
InsertMark(sorted, c) ==
    IF sorted = <<>> THEN <<c>>
    ELSE LET last == sorted[Len(sorted)]
         IN  IF CombiningClass(c) # 0 /\ CombiningClass(last) > CombiningClass(c)
             THEN Append(InsertMark(SubSeq(sorted, 1, Len(sorted) - 1), c), last)
             ELSE Append(sorted, c)

\* the canonical ordering of a decomposed string
RECURSIVE CanonicalOrder(_, _)
CanonicalOrder(done, rest) ==
    IF rest = <<>> THEN done
    ELSE CanonicalOrder(InsertMark(done, Head(rest)), Tail(rest))

\* unicodedata.normalize('NFD', text)
NFD(text) == CanonicalOrder(<<>>, Decompose(text))

\* normalize_accents: decompose, then drop the nonspacing marks
normalize_accents(text) == SelectSeq(NFD(text), LAMBDA c : ~IsMn(c))

\* ------------------------------------------------------------ variables
VARIABLES
    quotes_dir,     \* the set of quote files on disk
    stats_file,     \* rows of typing_stats.csv below the header
    quote,          \* game.quote
    typed_text,     \* game.typed_text
    start_time,     \* game.start_time
    end_time,       \* game.end_time
    errors,         \* game.errors
    session_stats,  \* game.session_stats
    ch,             \* the key code last returned by getch() in the typing loop
    now,            \* the last value returned by the wall clock
    pc,             \* where main_curses is blocked, or how it ended
    stats_mode,     \* typing_stats.csv: "ok", "readonly", "missing",
                    \* or "headerless" (created by an append, no header row)
    hist_stats,     \* hist_stats of render_welcome_screen
    \* src/fetcher.py, main (pc is shared: where main is, or "done")
    file_args,      \* per book file, what process_single_file returns for it
    processes,      \* args.processes
    num_quotes,     \* args.num_quotes
    file_iter,      \* how many entries of file_args file_iter has handed out
    future_to_file, \* the state of the future of every submitted file
    pending_fs,     \* the futures as_completed() took and has not yielded
    total_saved,    \* total_saved
    processed       \* the files whose result the loop body has handled

typer_vars == <<quotes_dir, stats_file, quote, typed_text, start_time,
                end_time, errors, session_stats, ch, now, stats_mode,
                hist_stats>>

fetcher_vars == <<file_args, processes, num_quotes, file_iter,
                  future_to_file, pending_fs, total_saved, processed>>

vars == <<typer_vars, pc, fetcher_vars>>

\* the quote extractor is not running
NoFetcher ==
    /\ file_args = <<>>
    /\ processes = 0
    /\ num_quotes = 0
    /\ file_iter = 0
    /\ future_to_file = <<>>
    /\ pending_fs = {}
    /\ total_saved = 0
    /\ processed = {}

\* values a clock read can return when the previous read returned t
Reads(t) == t..MaxClock

\* ------------------------------------------------------- TimingTracker
\* Python round(): n/d to the nearest integer, ties to even (n >= 0, d > 0)
RoundDiv(n, d) ==
    LET q == n \div d
        r == n % d
    IN  IF 2 * r < d THEN q
        ELSE IF 2 * r > d THEN q + 1
        ELSE IF q % 2 = 0 THEN q ELSE q + 1

\* calculate_wpm without the elapsed_time == 0 test: the division raises
\* ZeroDivisionError, shown as -1
calculate_wpm_NoZeroGuard(start, typed, t) ==
    IF (start = None \/ start = 0) \/ Len(typed) = 0 THEN 0
    ELSE LET elapsed == t - start
         IN  IF elapsed = 0 THEN -1
             ELSE RoundDiv(1200 * Len(typed), elapsed)

\* calculate_wpm with time.time() returning t; result in tenths of a wpm.
\* (len/5) / ((t - start)/60) with t in 0.1 s ticks is 120*len/(t - start).
calculate_wpm(start, typed, t) ==
    IF (start = None \/ start = 0) \/ Len(typed) = 0 THEN 0
    ELSE LET elapsed == t - start
         IN  IF elapsed = 0 THEN 0
             ELSE RoundDiv(1200 * Len(typed), elapsed)

\* ------------------------------------------------------ TierClassifier
\* the cascade with > in the place of >=
calculate_tier_StrictThresholds(wpm, errs) ==
    IF wpm > PRISTINE_WPM /\ errs <= PRISTINE_MAX_ERRORS THEN "pristine"
    ELSE IF wpm > EXCEPTIONAL_WPM THEN "exceptional"
    ELSE IF wpm > ADEQUATE_WPM THEN "adequate"
    ELSE "disaster"

calculate_tier(wpm, errs) ==
    IF wpm >= PRISTINE_WPM /\ errs <= PRISTINE_MAX_ERRORS THEN "pristine"
    ELSE IF wpm >= EXCEPTIONAL_WPM THEN "exceptional"
    ELSE IF wpm >= ADEQUATE_WPM THEN "adequate"
    ELSE "disaster"

\* ---------------------------------------------------------- StatsStore
\* save_stats opening the file with 'w': the new row replaces the log
save_stats_Truncating(rows, wpm, errs, elapsed_time, tier) ==
    << [wpm |-> wpm, accuracy |-> 1000, errors |-> errs,
        duration_seconds |-> elapsed_time, tier |-> tier] >>

\* save_stats: the row appended to the file (wpm, accuracy and duration in
\* tenths; round(elapsed_time, 2) changes nothing on ticks of 0.1 s)
save_stats(rows, wpm, errs, elapsed_time, tier) ==
    Append(rows, [wpm |-> wpm, accuracy |-> 1000, errors |-> errs,
                  duration_seconds |-> elapsed_time, tier |-> tier])

\* the value None returned by get_historical_stats
NoData == [no_data |-> TRUE]

RECURSIVE SumSeq(_)
SumSeq(xs) == IF xs = <<>> THEN 0 ELSE Head(xs) + SumSeq(Tail(xs))

\* max(wpms), scanning from the left
RECURSIVE MaxFrom(_, _)
MaxFrom(best, xs) ==
    IF xs = <<>> THEN best
    ELSE MaxFrom(IF Head(xs) > best THEN Head(xs) ELSE best, Tail(xs))

\* recent_wpms taken from the front of the list
RecentWpms_FirstFive(wpms) ==
    IF Len(wpms) > 5 THEN SubSeq(wpms, 1, 5) ELSE wpms

\* wpms[-5:] if len(wpms) > 5 else wpms
RecentWpms(wpms) ==
    IF Len(wpms) > 5 THEN SubSeq(wpms, Len(wpms) - 4, Len(wpms)) ELSE wpms

\* the tier_counts dictionary: a count for every tier that occurs
TierCounts(rows) ==
    [t \in {rows[i].tier : i \in 1..Len(rows)} |->
        Cardinality({i \in 1..Len(rows) : rows[i].tier = t})]

\* the state of the file after open(self.stats_file, 'a'): a file that was
\* missing is created, without the header row initialize_stats_file writes
ModeAfterAppend(mode) == IF mode = "missing" THEN "headerless" ELSE mode

\* best_wpm taken from the latest row
get_historical_stats_BestIsLast(mode, rows) ==
    IF mode \in {"missing", "headerless"} THEN NoData
    ELSE IF Len(rows) = 0 THEN NoData
    ELSE LET wpms == [i \in 1..Len(rows) |-> rows[i].wpm]
         IN  [total_rounds |-> Len(rows),
              avg_wpm |-> RoundDiv(SumSeq(wpms), Len(wpms)),
              recent_avg_wpm |-> RoundDiv(SumSeq(wpms), Len(wpms)),
              best_wpm |-> wpms[Len(wpms)],
              tier_counts |-> TierCounts(rows)]

\* an empty log reported as a statistics object of zeros
get_historical_stats_ZeroPlaceholders(mode, rows) ==
    IF mode \in {"missing", "headerless"} THEN NoData
    ELSE LET wpms == [i \in 1..Len(rows) |-> rows[i].wpm]
         IN  [total_rounds |-> Len(rows),
              avg_wpm |-> IF Len(rows) = 0 THEN 0
                          ELSE RoundDiv(SumSeq(wpms), Len(wpms)),
              recent_avg_wpm |-> 0,
              best_wpm |-> IF Len(rows) = 0 THEN 0
                           ELSE MaxFrom(Head(wpms), Tail(wpms)),
              tier_counts |-> TierCounts(rows)]

\* get_historical_stats on a file in state mode holding rows; the rows are
\* those save_stats wrote, which float() reads back unchanged.  In a
\* headerless file DictReader takes the first row for the header: either no
\* row is left or row['wpm'] raises KeyError, and the bare except returns
\* None.
get_historical_stats(mode, rows) ==
    IF mode = "missing" THEN NoData
    ELSE IF mode = "headerless" THEN NoData
    ELSE IF Len(rows) = 0 THEN NoData
    ELSE LET wpms == [i \in 1..Len(rows) |-> rows[i].wpm]
             recent_wpms == RecentWpms(wpms)
         IN  [total_rounds |-> Len(rows),
              avg_wpm |-> RoundDiv(SumSeq(wpms), Len(wpms)),
              recent_avg_wpm |-> RoundDiv(SumSeq(recent_wpms), Len(recent_wpms)),
              best_wpm |-> MaxFrom(Head(wpms), Tail(wpms)),
              tier_counts |-> TierCounts(rows)]

\* ------------------------------------------------------- TypingSession
\* the comparison loop passing over the positions where the quote has a space
RECURSIVE CompareFrom_SkipsSpaces(_, _, _)
CompareFrom_SkipsSpaces(typed, q, i) ==
    IF i > Len(q) THEN TRUE
    ELSE IF q[i] # 32
            /\ normalize_accents(<<typed[i]>>) # normalize_accents(<<q[i]>>) THEN FALSE
    ELSE CompareFrom_SkipsSpaces(typed, q, i + 1)

\* the for-loop of is_complete from index i on, with its early return
RECURSIVE CompareFrom(_, _, _)
CompareFrom(typed, q, i) ==
    IF i > Len(q) THEN TRUE
    ELSE IF normalize_accents(<<typed[i]>>) # normalize_accents(<<q[i]>>) THEN FALSE
    ELSE CompareFrom(typed, q, i + 1)

\* is_complete comparing the lengths only
is_complete_LengthOnly(typed, q) == Len(typed) = Len(q)

is_complete(typed, q) ==
    IF Len(typed) # Len(q) THEN FALSE
    ELSE CompareFrom(typed, q, 1)

\* ------------------------------------------------------------- actions
\* lines 587-610 of main_curses: the round is over (completed, or Ctrl+X).
\* typed2/start2/errs2 are the round's fields at that point and t the last
\* clock value read; te is the read for end_time, tw the read inside the
\* final calculate_wpm().  A row of the stats file is kept without its
\* timestamp, date and time columns, which no query reads back.  When the
\* file cannot be opened for appending, save_stats raises after the entry
\* went into session_stats; main() prints the error and returns 1.
EndRound(typed2, start2, errs2, t) ==
    \E te \in Reads(t) : \E tw \in Reads(te) :
        LET final_wpm == IF start2 = None THEN 0
                         ELSE calculate_wpm(start2, typed2, tw)
            elapsed_time == IF start2 = None THEN 0 ELSE te - start2
            tier == calculate_tier(final_wpm, errs2)
        IN  /\ end_time' = te
            /\ session_stats' = Append(session_stats,
                   [wpm |-> final_wpm, time |-> elapsed_time, tier |-> tier])
            /\ now' = tw
            /\ IF stats_mode # "readonly"
               THEN /\ stats_file' = save_stats(stats_file, final_wpm, errs2,
                                                elapsed_time, tier)
                    /\ pc' = "completion"
               ELSE /\ stats_file' = stats_file
                    /\ pc' = "error"

\* lines 581-585 and the loop test of line 535: calculate_wpm() for the
\* display (clock read tr), then either the next getch() or the end of round
LoopTail(typed2, start2, errs2, t) ==
    \E tr \in Reads(t) :
        IF is_complete(typed2, quote)
        THEN EndRound(typed2, start2, errs2, tr)
        ELSE /\ pc' = "typing"
             /\ now' = tr
             /\ UNCHANGED <<end_time, session_stats, stats_file>>

\* backspace taking back the error of the character it removes
Backspace_ForgetsError ==
    LET n == Len(typed_text)
        typed2 == IF n > 0 THEN SubSeq(typed_text, 1, n - 1) ELSE typed_text
        errs2 == IF n > 0 /\ n <= Len(quote) /\ errors > 0
                    /\ normalize_accents(<<typed_text[n]>>)
                         # normalize_accents(<<quote[n]>>)
                 THEN errors - 1
                 ELSE errors
    IN  /\ typed_text' = typed2
        /\ errors' = errs2
        /\ UNCHANGED start_time
        /\ LoopTail(typed2, start_time, errs2, now)

\* backspace starting the error count afresh
Backspace_ClearsErrors ==
    LET n == Len(typed_text)
        typed2 == IF n > 0 THEN SubSeq(typed_text, 1, n - 1) ELSE typed_text
    IN  /\ typed_text' = typed2
        /\ errors' = 0
        /\ UNCHANGED start_time
        /\ LoopTail(typed2, start_time, 0, now)

\* lines 544-547: backspace
Backspace ==
    LET typed2 == IF Len(typed_text) > 0
                  THEN SubSeq(typed_text, 1, Len(typed_text) - 1)
                  ELSE typed_text
    IN  /\ typed_text' = typed2
        /\ UNCHANGED <<start_time, errors>>
        /\ LoopTail(typed2, start_time, errors, now)

\* Ctrl+X leaving start_time as it is
Abort_KeepsClock ==
    /\ UNCHANGED <<typed_text, errors, start_time>>
    /\ EndRound(typed_text, start_time, errors, now)

\* lines 553-560: Ctrl+X ends the typing loop
Abort ==
    \E t1 \in Reads(now) :
        LET start2 == IF start_time = None THEN t1 ELSE start_time
            t == IF start_time = None THEN t1 ELSE now
        IN  /\ start_time' = start2
            /\ UNCHANGED <<typed_text, errors>>
            /\ EndRound(typed_text, start2, errors, t)

\* a printable key counted as an error when it lands beyond the quote's end
Feed_CountsPastEnd(k) ==
    \E t1 \in Reads(now) :
        LET start2 == IF start_time = None THEN t1 ELSE start_time
            t == IF start_time = None THEN t1 ELSE now
            typed2 == typed_text \o normalize_text(<<k>>)
            current_pos == Len(typed2)
            errs2 == IF current_pos > Len(quote) THEN errors + 1
                     ELSE IF normalize_accents(<<typed2[current_pos]>>)
                               # normalize_accents(<<quote[current_pos]>>)
                     THEN errors + 1
                     ELSE errors
        IN  /\ typed_text' = typed2
            /\ start_time' = start2
            /\ errors' = errs2
            /\ LoopTail(typed2, start2, errs2, t)

\* a printable key that sets start_time every time
Feed_RestartsClock(k) ==
    \E t1 \in Reads(now) :
        LET typed2 == typed_text \o normalize_text(<<k>>)
            current_pos == Len(typed2)
            errs2 == IF current_pos <= Len(quote)
                        /\ normalize_accents(<<typed2[current_pos]>>)
                             # normalize_accents(<<quote[current_pos]>>)
                     THEN errors + 1
                     ELSE errors
        IN  /\ typed_text' = typed2
            /\ start_time' = t1
            /\ errors' = errs2
            /\ LoopTail(typed2, t1, errs2, t1)

\* a printable key dropped once the buffer is as long as the quote
Feed_Clamped(k) ==
    \E t1 \in Reads(now) :
        LET start2 == IF start_time = None THEN t1 ELSE start_time
            t == IF start_time = None THEN t1 ELSE now
            full == Len(typed_text) >= Len(quote)
            typed2 == IF full THEN typed_text
                      ELSE typed_text \o normalize_text(<<k>>)
            current_pos == Len(typed2)
            errs2 == IF ~full
                        /\ normalize_accents(<<typed2[current_pos]>>)
                             # normalize_accents(<<quote[current_pos]>>)
                     THEN errors + 1
                     ELSE errors
        IN  /\ typed_text' = typed2
            /\ start_time' = start2
            /\ errors' = errs2
            /\ LoopTail(typed2, start2, errs2, t)

\* lines 562-579: a printable ASCII key
Feed(k) ==
    \E t1 \in Reads(now) :
        LET start2 == IF start_time = None THEN t1 ELSE start_time
            t == IF start_time = None THEN t1 ELSE now
            typed2 == typed_text \o normalize_text(<<k>>)
            current_pos == Len(typed2)
            errs2 == IF current_pos <= Len(quote)
                        /\ normalize_accents(<<typed2[current_pos]>>)
                             # normalize_accents(<<quote[current_pos]>>)
                     THEN errors + 1
                     ELSE errors
        IN  /\ typed_text' = typed2
            /\ start_time' = start2
            /\ errors' = errs2
            /\ LoopTail(typed2, start2, errs2, t)

\* the typing loop handling Ctrl+C as it handles Ctrl+X
KeyPress_CtrlCRecords(k) ==
    /\ pc = "typing"
    /\ UNCHANGED fetcher_vars
    /\ ch' = k
    /\ UNCHANGED <<quotes_dir, quote, stats_mode, hist_stats>>
    /\ IF k \in {KEY_BACKSPACE, 127, 8} THEN Backspace
       ELSE IF k = CTRL_C \/ k = CTRL_X THEN Abort
       ELSE IF 32 <= k /\ k <= 126 THEN Feed(k)
       ELSE /\ UNCHANGED <<typed_text, start_time, errors>>
            /\ LoopTail(typed_text, start_time, errors, now)

\* one iteration of the typing loop (lines 535-585) for the key code k,
\* followed by the end of the round when the loop is left
KeyPress(k) ==
    /\ pc = "typing"
    /\ UNCHANGED fetcher_vars
    /\ ch' = k
    /\ UNCHANGED <<quotes_dir, quote, stats_mode, hist_stats>>
    /\ IF k \in {KEY_BACKSPACE, 127, 8} THEN Backspace
       ELSE IF k = CTRL_C THEN
            /\ pc' = "summary"
            /\ UNCHANGED <<typed_text, start_time, end_time, errors,
                           session_stats, stats_file, now>>
       ELSE IF k = CTRL_X THEN Abort
       ELSE IF 32 <= k /\ k <= 126 THEN Feed(k)
       ELSE /\ UNCHANGED <<typed_text, start_time, errors>>
            /\ LoopTail(typed_text, start_time, errors, now)

\* load_quotes keeping the file's curly quotes
load_quotes_Raw(f) == f

\* load_quotes, lines 204-205: the quote stored for the file's first line
load_quotes(f) == normalize_text(f)

\* a quotes directory without files taken for one empty quote
StartRound_EmptyQuote(t) ==
    /\ UNCHANGED <<quotes_dir, ch, stats_mode, hist_stats>>
    /\ UNCHANGED fetcher_vars
    /\ \E f \in (IF quotes_dir = {} THEN {<<>>} ELSE quotes_dir) :
           LET q == load_quotes(f)
           IN  /\ quote' = q
               /\ typed_text' = <<>>
               /\ start_time' = None
               /\ errors' = 0
               /\ IF is_complete(<<>>, q)
                  THEN EndRound(<<>>, None, 0, t)
                  ELSE /\ end_time' = None
                       /\ pc' = "typing"
                       /\ now' = t
                       /\ UNCHANGED <<session_stats, stats_file>>

\* lines 526-535: load_quotes(), reset_for_new_round(), first loop test;
\* t is the clock when the round starts
StartRound(t) ==
    /\ UNCHANGED <<quotes_dir, ch, stats_mode, hist_stats>>
    /\ UNCHANGED fetcher_vars
    /\ IF quotes_dir = {}
       THEN /\ pc' = "error"
            /\ now' = t
            /\ UNCHANGED <<quote, typed_text, start_time, end_time, errors,
                           session_stats, stats_file>>
       ELSE \E f \in quotes_dir :
                LET q == load_quotes(f)
                IN  /\ quote' = q
                    /\ typed_text' = <<>>
                    /\ start_time' = None
                    /\ errors' = 0
                    /\ IF is_complete(<<>>, q)
                       THEN EndRound(<<>>, None, 0, t)
                       ELSE /\ end_time' = None
                            /\ pc' = "typing"
                            /\ now' = t
                            /\ UNCHANGED <<session_stats, stats_file>>

\* line 523 (render_welcome_screen returns on any key), then the first round
WelcomeKey ==
    /\ pc = "welcome"
    /\ StartRound(now)

\* line 610 (render_completion_screen returns on a key), then the next round.
\* The runs followed are those in which the completion screen stays up for
\* at least one tick of the clock, which bounds the rounds of a run.
CompletionKey ==
    /\ pc = "completion"
    /\ \E t \in Reads(now) \ {now} : StartRound(t)

\* KeyboardInterrupt raised inside a getch(): lines 538-539 and 612-613
Interrupt ==
    /\ pc \in {"welcome", "typing", "completion"}
    /\ UNCHANGED fetcher_vars
    /\ pc' = "summary"
    /\ UNCHANGED <<quotes_dir, stats_file, quote, typed_text, start_time,
                   end_time, errors, session_stats, ch, now, stats_mode,
                   hist_stats>>

\* main, lines 616-623: the value returned once main_curses has ended
ExitCode == IF pc = "error" THEN 1 ELSE IF pc = "summary" THEN 0 ELSE None

\* TyperacerGame.__init__ and render_welcome_screen up to its getch(), on a
\* new stats file
Init ==
    /\ quotes_dir \in {QuoteFiles, {}}
    /\ NoFetcher
    /\ stats_mode = "ok"
    /\ hist_stats = get_historical_stats("ok", <<>>)
    /\ stats_file = <<>>
    /\ quote = <<>>
    /\ typed_text = <<>>
    /\ start_time = None
    /\ end_time = None
    /\ errors = 0
    /\ session_stats = <<>>
    /\ ch = None
    /\ now = 1
    /\ pc = "welcome"

\* the part of the behaviour that is followed: bounded over-length typing
\* and a bounded error count
WithinBounds ==
    /\ Len(typed_text') <= Len(quote') + MaxOver
    /\ errors' <= MaxErrors

Next ==
    \/ WelcomeKey
    \/ \E k \in Keys : KeyPress(k) /\ WithinBounds
    \/ CompletionKey
    \/ Interrupt

Spec == Init /\ [][Next]_vars

\* ------------------------------------------------ the fox scenario
\* "The quick fox runs." and the same sentence typed without its spaces
FoxQuote == << 84, 104, 101, 32, 113, 117, 105, 99, 107, 32, 102, 111, 120,
               32, 114, 117, 110, 115, 46 >>
FoxTyped == << 84, 104, 101, 113, 117, 105, 99, 107, 102, 111, 120, 114,
               117, 110, 115, 46 >>

IsPrefix(s, t) == Len(s) <= Len(t) /\ SubSeq(t, 1, Len(s)) = s

\* positions of the typed buffer that differ from the quote under folding
Mismatches(typed, q) ==
    { i \in 1..Len(typed) :
        i > Len(q) \/ normalize_accents(<<typed[i]>>) # normalize_accents(<<q[i]>>) }

\* The typist of the scenario: backspace, Ctrl+X, the right key for the
\* current position, or (while the buffer is a prefix of FoxTyped and nothing
\* has been corrected yet) the next character of FoxTyped.  Every mistake is
\* made on this first pass, so in this scenario errors = 13 exactly when the
\* buffer has been FoxTyped at some moment of the round.
FoxKeys ==
    {127, CTRL_X}
    \cup { quote[i] : i \in {Len(typed_text) + 1} \cap 1..Len(quote) }
    \cup { FoxTyped[i] : i \in { j \in {Len(typed_text) + 1} \cap 1..Len(FoxTyped) :
                                   /\ IsPrefix(typed_text, FoxTyped)
                                   /\ errors = Cardinality(Mismatches(typed_text, quote)) } }

InitFox ==
    /\ quotes_dir = {FoxQuote}
    /\ NoFetcher
    /\ stats_mode = "ok"
    /\ hist_stats = get_historical_stats("ok", <<>>)
    /\ stats_file = <<>>
    /\ quote = <<>>
    /\ typed_text = <<>>
    /\ start_time = None
    /\ end_time = None
    /\ errors = 0
    /\ session_stats = <<>>
    /\ ch = None
    /\ now = 1
    /\ pc = "welcome"

NextFox ==
    \/ WelcomeKey
    \/ \E k \in FoxKeys : KeyPress(k)
    \/ Interrupt

SpecFox == InitFox /\ [][NextFox]_vars

\* ------------------------------------------------- properties checked
\* the folded form of one character, as compared by the game
Fold(c) == normalize_accents(<<c>>)

\* the typed buffer agrees with the quote, under folding, as far as it goes
CorrectPrefix(typed, q) ==
    /\ Len(typed) <= Len(q)
    /\ \A i \in 1..Len(typed) : Fold(typed[i]) = Fold(q[i])

BackspaceKeys == {KEY_BACKSPACE, 127, 8}

\* the step handles a printable key read in the typing loop
FedStep == pc = "typing" /\ pc' # "summary" /\ 32 <= ch' /\ ch' <= 126

\* the record of the round that has just ended
LastRound == session_stats[Len(session_stats)]

\* C1: in every reachable state is_complete() is true exactly when the typed
\* buffer is as long as the quote and every typed character equals the
\* quote's character at its index after diacritic folding.
C1_IsCompleteIff ==
    is_complete(typed_text, quote)
        <=> /\ Len(typed_text) = Len(quote)
            /\ \A i \in 1..Len(quote) : Fold(typed_text[i]) = Fold(quote[i])

\* a round completed by typing e for e-acute
C1_Witness ==
    /\ pc = "completion"
    /\ quote = <<233>>
    /\ typed_text = <<101>>
    /\ is_complete(typed_text, quote)

\* C2: within a round the error count never decreases, and a backspace (on
\* an empty or non-empty buffer) leaves it exactly as it was.
C2_ErrorsNeverDecrease ==
    [][pc = "typing" =>
          /\ errors' >= errors
          /\ (ch' \in BackspaceKeys => errors' = errors)]_vars

\* a miskeyed character has been backspaced away and still counts
C2_Witness ==
    /\ pc = "typing"
    /\ ch \in BackspaceKeys
    /\ typed_text = <<>>
    /\ errors > 0

\* C3 as stated: every printable character fed is appended and compared with
\* the quote's character at its index, the error count going up by exactly 1
\* when they differ (the quote has no equal character there) and staying when
\* they are equal.
C3_EveryFedCharCompared ==
    [][FedStep =>
          LET i == Len(typed_text) + 1
              differs == i > Len(quote)
                         \/ Fold(TranslateChar(ch')) # Fold(quote[i])
          IN  /\ typed_text' = Append(typed_text, TranslateChar(ch'))
              /\ errors' = errors + (IF differs THEN 1 ELSE 0)]_vars

\* C3 amended: a printable character is always appended; it is compared, and
\* counted when it differs, only when appended at an index inside the quote;
\* appended beyond the quote's end it leaves the error count unchanged.
C3_FedCharComparedInsideQuote ==
    [][FedStep =>
          LET i == Len(typed_text) + 1
              differs == i <= Len(quote)
                         /\ Fold(TranslateChar(ch')) # Fold(quote[i])
          IN  /\ typed_text' = Append(typed_text, TranslateChar(ch'))
              /\ errors' = errors + (IF differs THEN 1 ELSE 0)]_vars

\* two characters typed beyond the quote's end, one error counted
C3_Witness ==
    /\ pc = "typing"
    /\ quote # <<>>
    /\ Len(typed_text) = Len(quote) + 2
    /\ errors = 1

C6_AtMostOneOver == Len(typed_text) <= Len(quote) + 1

\* C6 amended: one input event lengthens the typed buffer by at most one
\* character, and every printable key read in the typing loop does lengthen
\* it by one whatever its length, so the buffer can run any number of
\* characters past the quote.
C6_GrowsOneAtATime ==
    [][pc = "typing" =>
          /\ Len(typed_text') <= Len(typed_text) + 1
          /\ (FedStep => Len(typed_text') = Len(typed_text) + 1)]_vars

\* the typed buffer two characters longer than the quote
C6_Witness ==
    /\ pc = "typing"
    /\ Len(quote) = 2
    /\ Len(typed_text) = 4

\* C7: feeding, from the start of a round and with no other key, characters
\* that each equal the quote's next character under quote canonicalization
\* and folding keeps the error count at 0 and the buffer a correct prefix,
\* and the round is complete when the last of them is fed.
C7_ExactTypingCompletes ==
    [][(/\ FedStep
        /\ errors = 0
        /\ CorrectPrefix(typed_text, quote)
        /\ Len(typed_text) < Len(quote)
        /\ Fold(TranslateChar(ch'))
             = Fold(TranslateChar(quote[Len(typed_text) + 1])))
       => /\ errors' = 0
          /\ CorrectPrefix(typed_text', quote)
          /\ Len(typed_text') = Len(typed_text) + 1
          /\ (Len(typed_text') = Len(quote)
                 => /\ pc' = "completion"
                    /\ is_complete(typed_text', quote')
                    /\ LastRound'.tier \in {"pristine", "exceptional",
                                            "adequate", "disaster"})]_vars

\* the quote stored for the file with a right curly double quote, completed
\* with a straight double quote and no error
C7_Witness ==
    /\ pc = "completion"
    /\ quote = <<34, 101>>
    /\ typed_text = <<34, 101>>
    /\ errors = 0
    /\ ch = 101

\* C8 as stated (fox scenario): once the buffer has been FoxTyped the round
\* is never complete.  In the scenario errors = 13 exactly when the buffer
\* has been FoxTyped.
C8_NeverCompleteAfterFoxTyped ==
    (quote = FoxQuote /\ errors = 13) => ~is_complete(typed_text, quote)

\* C8 amended: with the buffer FoxTyped the round is not complete, and it
\* stays incomplete as long as the buffer keeps the q typed in place of the
\* first space; after backspacing to "The" the round can be completed.
C8_IncompleteWhileMisplacedQ ==
    (quote = FoxQuote /\ Len(typed_text) >= 4 /\ typed_text[4] = 113)
        => /\ ~is_complete(typed_text, quote)
           /\ (pc = "completion" => ch = CTRL_X)

\* the buffer is FoxTyped
C8_Witness ==
    /\ pc = "typing"
    /\ quote = FoxQuote
    /\ typed_text = FoxTyped
    /\ errors = 13

\* C9: calculate_wpm() is 0.0 whenever start_time is unset or the buffer is
\* empty, at every clock value, and is 0.0 when the elapsed time is 0.
C9_WpmZero ==
    \A t \in now..MaxClock :
        /\ (start_time = None \/ Len(typed_text) = 0)
              => calculate_wpm(start_time, typed_text, t) = 0
        /\ (start_time # None /\ t = start_time)
              => calculate_wpm(start_time, typed_text, t) = 0

\* characters typed and the clock still at start_time
C9_Witness ==
    /\ pc = "typing"
    /\ Len(typed_text) > 0
    /\ start_time = now

\* C10: the wpm recorded for an ended round is the wpm over end_time -
\* start_time, the interval recorded as its duration.
C10_WpmOverRecordedDuration ==
    pc = "completion" =>
        /\ LastRound.time = (IF start_time = None THEN 0 ELSE end_time - start_time)
        /\ LastRound.wpm = (IF Len(typed_text) = 0 \/ LastRound.time = 0 THEN 0
                            ELSE RoundDiv(1200 * Len(typed_text), LastRound.time))

\* ------------------------------------- calculate_tier on its own
\* a game object whose error count is any of 0 .. MaxTierErrors
InitTier ==
    /\ quotes_dir = {}
    /\ NoFetcher
    /\ stats_mode = "ok"
    /\ hist_stats = NoData
    /\ stats_file = <<>>
    /\ quote = <<>>
    /\ typed_text = <<>>
    /\ start_time = None
    /\ end_time = None
    /\ errors \in 0..MaxTierErrors
    /\ session_stats = <<>>
    /\ ch = None
    /\ now = 1
    /\ pc = "calculate_tier"

\* lines 599-606: calculate_tier(final_wpm, game.errors), its result kept in
\* an entry of session_stats (only the latest entry is kept here)
TierCall(w) ==
    /\ pc = "calculate_tier"
    /\ UNCHANGED fetcher_vars
    /\ session_stats' = << [wpm |-> w, time |-> 0,
                            tier |-> calculate_tier(w, errors)] >>
    /\ UNCHANGED <<quotes_dir, stats_file, quote, typed_text, start_time,
                   end_time, errors, ch, now, pc, stats_mode, hist_stats>>

NextTier == \E w \in 0..MaxTierWpm : TierCall(w)

SpecTier == InitTier /\ [][NextTier]_vars

\* C11: calculate_tier is a first-match cascade: pristine iff wpm >= 90 and
\* errors <= 0; otherwise exceptional iff wpm >= 80; otherwise adequate iff
\* wpm >= 70; otherwise disaster.  (90, 0) is pristine, (90, 1) exceptional,
\* (75, 5) adequate and (10, 0) disaster.
C11_TierCascade ==
    /\ \A i \in 1..Len(session_stats) :
          LET r == session_stats[i]
              top == r.wpm >= 900 /\ errors <= 0
          IN  /\ r.tier \in {"pristine", "exceptional", "adequate", "disaster"}
              /\ r.tier = "pristine" <=> top
              /\ r.tier = "exceptional" <=> (~top /\ r.wpm >= 800)
              /\ r.tier = "adequate" <=> (~top /\ r.wpm < 800 /\ r.wpm >= 700)
              /\ r.tier = "disaster" <=> (~top /\ r.wpm < 700)
    /\ calculate_tier(900, 0) = "pristine"
    /\ calculate_tier(900, 1) = "exceptional"
    /\ calculate_tier(750, 5) = "adequate"
    /\ calculate_tier(100, 0) = "disaster"

\* 90.0 wpm with one error has been classified: the pristine test failed on
\* the errors and the next test matched
C11_Witness ==
    /\ pc = "calculate_tier"
    /\ errors = 1
    /\ Len(session_stats) = 1
    /\ session_stats[1].wpm = 900
    /\ session_stats[1].tier = "exceptional"

\* C12: every round that ends, by completion or by Ctrl+X, appends exactly
\* one record to the stats log and one entry to session_stats, with accuracy
\* 100.0 and the round's wpm, error count, duration and tier, under one
\* schema; no other step touches either list, and the records already there
\* stay as they are.
C12_OneRecordPerRound ==
    [][IF pc' = "completion"
       THEN LET n == Len(stats_file)
                m == Len(session_stats)
                r == stats_file'[n + 1]
                e == session_stats'[m + 1]
            IN  /\ Len(stats_file') = n + 1
                /\ SubSeq(stats_file', 1, n) = stats_file
                /\ Len(session_stats') = m + 1
                /\ SubSeq(session_stats', 1, m) = session_stats
                /\ DOMAIN r = {"wpm", "accuracy", "errors",
                               "duration_seconds", "tier"}
                /\ r.accuracy = 1000
                /\ r.errors = errors'
                /\ r.duration_seconds
                      = (IF start_time' = None THEN 0
                         ELSE end_time' - start_time')
                /\ r.tier = calculate_tier(r.wpm, errors')
                /\ e = [wpm |-> r.wpm, time |-> r.duration_seconds,
                        tier |-> r.tier]
       ELSE UNCHANGED <<stats_file, session_stats>>]_vars

\* a second round, ended by Ctrl+X, recorded after the first one
C12_Witness ==
    /\ pc = "completion"
    /\ ch = CTRL_X
    /\ Len(stats_file) = 2
    /\ Len(session_stats) = 2
    /\ stats_file[2].accuracy = 1000

\* --------------------------------- the stats file over successive runs
\* wpm values of the rounds recorded
StatWpms == {0, 455, 900}

InitStats ==
    /\ quotes_dir = QuoteFiles
    /\ NoFetcher
    /\ stats_mode = "missing"
    /\ hist_stats = NoData
    /\ stats_file = <<>>
    /\ quote = <<>>
    /\ typed_text = <<>>
    /\ start_time = None
    /\ end_time = None
    /\ errors = 0
    /\ session_stats = <<>>
    /\ ch = None
    /\ now = 1
    /\ pc = "start"

\* TyperacerGame.__init__, line 80: initialize_stats_file() writes the header
\* row when there is no file
StatsGameInit ==
    /\ pc = "start"
    /\ UNCHANGED fetcher_vars
    /\ pc' = "init"
    /\ stats_mode' = (IF stats_mode = "missing" THEN "ok" ELSE stats_mode)
    /\ UNCHANGED <<quotes_dir, stats_file, quote, typed_text, start_time,
                   end_time, errors, session_stats, ch, now, hist_stats>>

\* render_welcome_screen, line 285, up to its getch()
StatsWelcome ==
    /\ pc = "init"
    /\ UNCHANGED fetcher_vars
    /\ pc' = "welcome"
    /\ hist_stats' = get_historical_stats(stats_mode, stats_file)
    /\ UNCHANGED <<quotes_dir, stats_file, quote, typed_text, start_time,
                   end_time, errors, session_stats, ch, now, stats_mode>>

\* a round played to its end with final_wpm w and no error: line 607
StatsRound(w) ==
    /\ pc \in {"welcome", "completion"}
    /\ UNCHANGED fetcher_vars
    /\ Len(stats_file) < MaxRows
    /\ pc' = "completion"
    /\ hist_stats' = NoData
    /\ stats_file' = save_stats(stats_file, w, 0, 1, calculate_tier(w, 0))
    /\ stats_mode' = ModeAfterAppend(stats_mode)
    /\ UNCHANGED <<quotes_dir, quote, typed_text, start_time, end_time,
                   errors, session_stats, ch, now>>

\* Ctrl+C; the next run of the program finds the file as this one left it
StatsExit ==
    /\ pc \in {"welcome", "completion"}
    /\ UNCHANGED fetcher_vars
    /\ pc' = "start"
    /\ hist_stats' = NoData
    /\ UNCHANGED <<quotes_dir, stats_file, quote, typed_text, start_time,
                   end_time, errors, session_stats, ch, now, stats_mode>>

\* typing_stats.csv removed from outside the program
StatsDelete ==
    /\ stats_mode \in {"ok", "headerless"}
    /\ UNCHANGED fetcher_vars
    /\ pc \in {"start", "init", "completion"}
    /\ stats_mode' = "missing"
    /\ stats_file' = <<>>
    /\ UNCHANGED <<quotes_dir, quote, typed_text, start_time, end_time,
                   errors, session_stats, ch, now, pc, hist_stats>>

NextStats ==
    \/ StatsGameInit
    \/ StatsWelcome
    \/ \E w \in StatWpms : StatsRound(w)
    \/ StatsExit
    \/ StatsDelete

SpecStats == InitStats /\ [][NextStats]_vars

\* the wpm column of the log
LogWpms == [i \in 1..Len(stats_file) |-> stats_file[i].wpm]

\* the welcome screen holds the statistics of a log that started empty (with
\* its header) and has had rows appended since
StatsOfLog == pc = "welcome" /\ stats_mode = "ok" /\ Len(stats_file) >= 1

\* C13: from an empty stats log, after N >= 1 records were appended,
\* get_historical_stats() reports total_rounds = N and best_wpm = the
\* maximum of the appended wpm values.
C13_TotalAndBest ==
    StatsOfLog =>
        /\ hist_stats.total_rounds = Len(stats_file)
        /\ \A i \in 1..Len(stats_file) : hist_stats.best_wpm >= LogWpms[i]
        /\ \E i \in 1..Len(stats_file) : hist_stats.best_wpm = LogWpms[i]

\* three rounds recorded, the best of them neither the first nor the last
C13_Witness ==
    /\ StatsOfLog
    /\ LogWpms = <<455, 900, 0>>
    /\ hist_stats.total_rounds = 3
    /\ hist_stats.best_wpm = 900

\* a is the quotient total / n rounded to the nearest tenth of a wpm
IsRoundedMean(a, total, n) ==
    /\ 2 * (a * n - total) <= n
    /\ 2 * (total - a * n) <= n

\* C14: avg_wpm is the mean over all records of the log; recent_avg_wpm is
\* the mean over exactly the last 5 records in insertion order when the log
\* has at least 5 records, and over all records when it has fewer.
C14_AvgAndRecentAvg ==
    StatsOfLog =>
        LET n == Len(stats_file)
            last5 == SubSeq(LogWpms, n - 4, n)
        IN  /\ IsRoundedMean(hist_stats.avg_wpm, SumSeq(LogWpms), n)
            /\ n >= 5 =>
                  IsRoundedMean(hist_stats.recent_avg_wpm, SumSeq(last5), 5)
            /\ n < 5 =>
                  IsRoundedMean(hist_stats.recent_avg_wpm, SumSeq(LogWpms), n)

\* six records, the oldest unlike the last five: the two averages differ
C14_Witness ==
    /\ StatsOfLog
    /\ LogWpms = <<900, 0, 0, 0, 0, 455>>
    /\ hist_stats.avg_wpm = 226
    /\ hist_stats.recent_avg_wpm = 91

\* C18: when the stats log has no records, or does not exist,
\* get_historical_stats() returns None and not a statistics object.
C18_NoDataResult ==
    (pc = "welcome" /\ (stats_mode = "missing" \/ Len(stats_file) = 0))
        => /\ hist_stats = NoData
           /\ DOMAIN hist_stats = {"no_data"}

\* the welcome screen of a run that found the log with its header only
C18_Witness ==
    /\ pc = "welcome"
    /\ stats_mode = "ok"
    /\ Len(stats_file) = 0
    /\ hist_stats = NoData

\* ------------------------- a stats file that cannot be opened for append
\* typing_stats.csv exists (initialize_stats_file leaves it alone) and can
\* be read, but open(..., 'a') raises PermissionError
InitReadOnly ==
    /\ quotes_dir = QuoteFiles
    /\ NoFetcher
    /\ stats_mode = "readonly"
    /\ hist_stats = get_historical_stats("readonly", <<>>)
    /\ stats_file = <<>>
    /\ quote = <<>>
    /\ typed_text = <<>>
    /\ start_time = None
    /\ end_time = None
    /\ errors = 0
    /\ session_stats = <<>>
    /\ ch = None
    /\ now = 1
    /\ pc = "welcome"

\* main_curses as in Next; the completion screen is never reached
NextReadOnly ==
    \/ WelcomeKey
    \/ \E k \in Keys : KeyPress(k) /\ WithinBounds
    \/ Interrupt

SpecReadOnly == InitReadOnly /\ [][NextReadOnly]_vars

\* C15: when the stats record of a finished round cannot be written, the
\* round's completion screen is still rendered (and the run can go on to the
\* next round).
C15_SummaryDespiteWriteFailure ==
    [][(stats_mode = "readonly" /\ Len(session_stats') = Len(session_stats) + 1)
          => pc' = "completion"]_vars

\* C16: with no quote files no round is started: the run leaves the welcome
\* screen either for the error exit (exit code 1, from which nothing is
\* retried) or by Ctrl+C, no key of a round is read and nothing is recorded.
C16_NoQuotesNoRound ==
    [][quotes_dir = {} =>
          /\ pc = "welcome"
          /\ pc' \in {"error", "summary"}
          /\ pc' = "error" => ExitCode' = 1
          /\ ch' = None
          /\ stats_file' = <<>>
          /\ session_stats' = <<>>
          /\ UNCHANGED <<quote, typed_text, start_time, errors>>]_vars

\* the run ended on the missing quotes, after the key of the welcome screen
C16_Witness ==
    /\ quotes_dir = {}
    /\ pc = "error"
    /\ ExitCode = 1
    /\ stats_file = <<>>

\* C17: a key that arrives after the round has ended (completed or aborted)
\* is answered with an invalid-operation error; it is neither ignored nor
\* applied.
C17_InputAfterEndFailsLoudly ==
    [][(pc = "completion" /\ pc' # "summary") => pc' = "error"]_vars

\* ------------------------------------------- the normalizers on their own
\* the characters of the strings normalized
NormAlphabet == {34, 101, 233, 769, 847, 8221, 119141, 119149}

\* every string of at most MaxNormLen characters
NormStrings ==
    UNION { [1..n -> NormAlphabet] : n \in 0..MaxNormLen }

\* a string s held in quote, not normalized yet
InitNorm ==
    /\ quotes_dir = {}
    /\ NoFetcher
    /\ stats_mode = "ok"
    /\ hist_stats = NoData
    /\ stats_file = <<>>
    /\ quote \in NormStrings
    /\ typed_text = <<>>
    /\ start_time = None
    /\ end_time = None
    /\ errors = 0
    /\ session_stats = <<>>
    /\ ch = None
    /\ now = 1
    /\ pc = "input"

\* s = normalize_text(s), on the input or on what normalize_text returned
NormalizeText ==
    /\ pc \in {"input", "normalize_text"}
    /\ UNCHANGED fetcher_vars
    /\ pc' = "normalize_text"
    /\ quote' = normalize_text(quote)
    /\ UNCHANGED <<quotes_dir, stats_file, typed_text, start_time, end_time,
                   errors, session_stats, ch, now, stats_mode, hist_stats>>

\* s = normalize_accents(s), on the input or on what normalize_accents
\* returned
NormalizeAccents ==
    /\ pc \in {"input", "normalize_accents"}
    /\ UNCHANGED fetcher_vars
    /\ pc' = "normalize_accents"
    /\ quote' = normalize_accents(quote)
    /\ UNCHANGED <<quotes_dir, stats_file, typed_text, start_time, end_time,
                   errors, session_stats, ch, now, stats_mode, hist_stats>>

NextNorm == NormalizeText \/ NormalizeAccents

SpecNorm == InitNorm /\ [][NextNorm]_vars

\* C19: both normalizers are idempotent: applied to a string that the same
\* normalizer returned, normalize_text and normalize_accents return it
\* unchanged.
C19_NormalizersIdempotent ==
    [][/\ pc = "normalize_text" => quote' = quote
       /\ pc = "normalize_accents" => quote' = quote]_vars

\* C20: whenever the error count of a round is 0 the typed buffer is a
\* correct prefix of the quote (no longer than it, equal to it under folding
\* at every index typed); so with error count 0 and the quote's length typed
\* the round is complete.
C20_NoErrorsCorrectPrefix ==
    errors = 0 =>
        /\ CorrectPrefix(typed_text, quote)
        /\ Len(typed_text) = Len(quote) => is_complete(typed_text, quote)

\* an error-free buffer one character short of the quote, its straight quote
\* typed for the curly quote of the file
C20_Witness ==
    /\ pc = "typing"
    /\ errors = 0
    /\ ch = 34
    /\ quote = <<34, 101>>
    /\ typed_text = <<34>>

\* C21: an interrupt during a round (key code 3, or KeyboardInterrupt out of
\* getch()) ends the run on the session summary and records nothing for the
\* interrupted round, in the stats log or in session_stats, whereas Ctrl+X
\* records it; nothing happens after the summary.
C21_InterruptRecordsNothing ==
    [][/\ pc # "summary"
       /\ (pc = "typing" /\ ch' = CTRL_C) => pc' = "summary"
       /\ (pc = "typing" /\ pc' = "summary") =>
             UNCHANGED <<stats_file, session_stats, typed_text, errors>>
       /\ (pc = "typing" /\ pc' # "summary" /\ ch' = CTRL_X) =>
             /\ Len(stats_file') = Len(stats_file) + 1
             /\ Len(session_stats') = Len(session_stats) + 1]_vars

\* a second round interrupted by Ctrl+C with characters typed: the summary
\* is up and only the first round is on record
C21_Witness ==
    /\ pc = "summary"
    /\ ch = CTRL_C
    /\ Len(typed_text) > 0
    /\ Len(stats_file) = 1
    /\ Len(session_stats) = 1

\* ------------------------------- src/fetcher.py: the main loop of main
\* what process_single_file returns for a file: a list of 0 ..
\* MaxQuotesPerFile quotes, kept as its length.  A file that cannot be read
\* or parsed gives the empty list (the extract_from_* methods catch the
\* exception), so future.result() returns for every file; a pool whose
\* worker process dies is not followed.
FileResults == 0..MaxQuotesPerFile

Min(a, b) == IF a < b THEN a ELSE b

\* the typing game is not running
NoTyper ==
    /\ quotes_dir = {}
    /\ stats_mode = "ok"
    /\ hist_stats = NoData
    /\ stats_file = <<>>
    /\ quote = <<>>
    /\ typed_text = <<>>
    /\ start_time = None
    /\ end_time = None
    /\ errors = 0
    /\ session_stats = <<>>
    /\ ch = None
    /\ now = 1

\* lines 425-460: at least one book file, the arguments, nothing submitted
InitFetch ==
    /\ NoTyper
    /\ file_args \in UNION { [1..n -> FileResults] : n \in 1..MaxFiles }
    /\ processes \in 1..MaxProcesses
    /\ num_quotes \in 1..MaxNumQuotes
    /\ file_iter = 0
    /\ future_to_file = <<>>
    /\ pending_fs = {}
    /\ total_saved = 0
    /\ processed = {}
    /\ pc = "submit"

\* lines 467-477: the initial batch of min(processes * 2, len(file_args))
\* jobs, then the first next() of as_completed(future_to_file), which takes
\* fs = set(fs): the futures submitted so far
SubmitInitialBatch ==
    /\ pc = "submit"
    /\ LET batch == Min(processes * 2, Len(file_args))
       IN  /\ future_to_file' = [i \in 1..batch |-> "pending"]
           /\ file_iter' = batch
           /\ pending_fs' = 1..batch
    /\ pc' = "as_completed"
    /\ UNCHANGED <<typer_vars, file_args, processes, num_quotes, total_saved,
                   processed>>

\* a worker process of the pool takes a submitted job
WorkerStarts(i) ==
    /\ pc \in {"as_completed", "shutdown"}
    /\ i \in DOMAIN future_to_file
    /\ future_to_file[i] = "pending"
    /\ Cardinality({j \in DOMAIN future_to_file :
                       future_to_file[j] = "running"}) < processes
    /\ future_to_file' = [future_to_file EXCEPT ![i] = "running"]
    /\ UNCHANGED <<typer_vars, pc, file_args, processes, num_quotes,
                   file_iter, pending_fs, total_saved, processed>>

\* process_single_file returns (or raises) in the worker
WorkerFinishes(i) ==
    /\ pc \in {"as_completed", "shutdown"}
    /\ i \in DOMAIN future_to_file
    /\ future_to_file[i] = "running"
    /\ future_to_file' = [future_to_file EXCEPT ![i] = "finished"]
    /\ UNCHANGED <<typer_vars, pc, file_args, processes, num_quotes,
                   file_iter, pending_fs, total_saved, processed>>

\* lines 477-508: as_completed yields the finished future of file i, one of
\* those it took at its first next(), and the loop body runs.  Each quote is
\* saved while total_saved < num_quotes; save_quote_immediately returns
\* False when the file cannot be written, so any number of them up to that
\* limit is saved.  The loop ends when as_completed has yielded all the
\* futures it took.
LoopBody(i) ==
    /\ pc = "as_completed"
    /\ i \in pending_fs
    /\ future_to_file[i] = "finished"
    /\ UNCHANGED <<typer_vars, file_args, processes, num_quotes>>
    /\ IF total_saved >= num_quotes
       THEN \* cancel what has not started, break
            /\ future_to_file' =
                  [j \in DOMAIN future_to_file |->
                      IF future_to_file[j] = "pending" THEN "cancelled"
                      ELSE future_to_file[j]]
            /\ pending_fs' = {}
            /\ pc' = "shutdown"
            /\ UNCHANGED <<file_iter, total_saved, processed>>
       ELSE /\ processed' = processed \cup {i}
            /\ pending_fs' = pending_fs \ {i}
            /\ pc' = (IF pending_fs' = {} THEN "shutdown" ELSE "as_completed")
            /\ \E saved_from_file \in
                      0..Min(file_args[i], num_quotes - total_saved) :
                  /\ total_saved' = total_saved + saved_from_file
                  /\ IF total_saved' < num_quotes /\ file_iter < Len(file_args)
                     THEN \* executor.submit(process_single_file, arg)
                          /\ file_iter' = file_iter + 1
                          /\ future_to_file' = Append(future_to_file, "pending")
                     ELSE UNCHANGED <<file_iter, future_to_file>>

\* the end of the with block: executor.shutdown(wait=True) returns when no
\* submitted job is left to run; then lines 510-517
Shutdown ==
    /\ pc = "shutdown"
    /\ \A i \in DOMAIN future_to_file :
          future_to_file[i] \in {"finished", "cancelled"}
    /\ pc' = "done"
    /\ UNCHANGED <<typer_vars, fetcher_vars>>

NextFetch ==
    \/ SubmitInitialBatch
    \/ \E i \in 1..MaxFiles : WorkerStarts(i)
    \/ \E i \in 1..MaxFiles : WorkerFinishes(i)
    \/ \E i \in 1..MaxFiles : LoopBody(i)
    \/ Shutdown

SpecFetch == InitFetch /\ [][NextFetch]_vars

\* C22: while fewer than num_quotes quotes are saved, the result of every
\* submitted book file is consumed, also of a file submitted after the
\* initial batch; so the run has ended only with total_saved = num_quotes
\* or with every book file's result processed.
C22_EveryResultConsumed ==
    pc = "done" =>
        /\ total_saved < num_quotes => DOMAIN future_to_file \subseteq processed
        /\ total_saved = num_quotes \/ processed = 1..Len(file_args)

====
